---- MODULE Spec2Model ----
(***************************************************************************)
(* The research workflow of the agentic research assistant: the LangGraph  *)
(* state graph built by ResearchWorkflow._create_workflow, its six nodes,  *)
(* the quality router, and the top-level guard of ResearchWorkflow.execute.*)
(*                                                                         *)
(* Scores are integers in hundredths (0.7 is 70).  Optional fields are     *)
(* sequences of length at most one (None is <<>>).  Timestamps are the     *)
(* token "t".  The errors list is one Python list object that every stage  *)
(* appends to in place; the run record and the record held by execute      *)
(* both refer to it, so it is kept once, in state.errors.                  *)
(***************************************************************************)
EXTENDS Integers, Sequences, FiniteSets, TLC

VARIABLES
    state,          \* the ResearchState record threaded through the graph
    initial_state,  \* the argument of ResearchWorkflow.execute (errors: see above)
    pc,             \* the node the graph runs next, "quality_router", or "END"
    steps,          \* node executions so far in this ainvoke
    route,          \* what _quality_router returned last ("none" before)
    failures,       \* provider failures injected so far
    replans,        \* replan routes taken so far
    all_low,        \* every assessment so far scored below ModerateQuality
    research_pass,  \* what each path of the last research pass did and
                    \* returned, until the assessment that follows it
    all_empty,      \* in every research pass so far both providers were
                    \* asked and both returned an empty list
    section_failures, \* the section tasks that raised in the last generation
    args,           \* the arguments a function of an agent is applied to
    result,         \* what it returned (<<>> before it has)
    tasks,          \* the concurrent tasks of one fan-out or of one service
    semaphore,      \* the value of the external researcher's Semaphore
    clock,          \* time.time(), in ticks
    last_request_time, \* WebSearchService.last_request_time
    requests        \* the times at which _rate_limit let a request go

workflow_vars ==
    <<state, initial_state, pc, steps, route, failures, replans, all_low,
      research_pass, all_empty, section_failures>>

service_vars ==
    <<args, result, tasks, semaphore, clock, last_request_time, requests>>

vars == <<workflow_vars, service_vars>>

----------------------------------------------------------------------------
(* Bounds of the model *)

\* the completion provider returns at most this many question lines
MaxQuestions == 2
\* at most this many provider failures (planner, internal, external) per run
MaxFailures == 2

(* Program constants *)

\* research_workflow.py:150
MaxIterations == 3
\* research_workflow.py:154
GoodQuality == 70
\* research_workflow.py:156
ModerateQuality == 40
\* quality_assessor.py:211
DefaultQuality == 60
\* research_workflow.py:131
ErrorThreshold == 5
\* research_planner.py:74
QuestionLimit == 6
\* research_workflow.py:164: ainvoke without a config runs under LangGraph's
\* default recursion limit and raises GraphRecursionError beyond it
RecursionLimit == 25

\* overall scores an assessment of a non-empty source pool may produce
ScoreValues == {20, 50, 80}

Topic == "topic"

----------------------------------------------------------------------------
(* Helpers *)

Min(a, b) == IF a < b THEN a ELSE b

Error(type, step) == [type |-> type, step |-> step]

\* error kinds whose name contains the substring "critical"
\* (research_workflow.py:145, '"critical" in e.get("type", "")')
CriticalTypes == {"critical_error", "noncritical_warning"}

IsCritical(e) == e.type \in CriticalTypes

RECURSIVE Repeat(_, _)
Repeat(x, n) == IF n = 0 THEN <<>> ELSE <<x>> \o Repeat(x, n - 1)

ErrorTypesOf(errors) == [i \in 1..Len(errors) |-> errors[i].type]

Source(type, question) == [source_type |-> type, question |-> question]

SectionNames == {"executive_summary", "introduction", "key_findings",
                 "detailed_analysis", "conclusion", "references"}

Report(kind, types) == [kind |-> kind, types |-> types]

----------------------------------------------------------------------------
(* ResearchPlannerAgent *)

\* the questions parsed from the completion, cut to the first QuestionLimit
Questions(n) == [i \in 1..Min(n, QuestionLimit) |-> i]

estimate_duration(questions) ==
    IF Len(questions) > 4 THEN (Len(questions) * 75) \div 10
                          ELSE Len(questions) * 6

\* a handler that drops the plan and the questions of the failed planning
planner_handle_error_drops_plan(s, error_type) ==
    [s EXCEPT !.errors = Append(@, Error(error_type, "planning")),
              !.research_plan = <<>>,
              !.research_questions = <<>>,
              !.current_step = "error_recovery"]

\* a handler that marks the failure as critical
planner_handle_error_critical(s, error_type) ==
    [s EXCEPT !.errors = Append(@, Error("critical_error", "planning")),
              !.current_step = "error_recovery"]

planner_handle_error(s, error_type) ==
    [s EXCEPT !.errors = Append(@, Error(error_type, "planning")),
              !.current_step = "error_recovery"]

\* a planner that counts an entry twice
planner_execute_counts_twice(s, ok, n) ==
    IF ok
    THEN [s EXCEPT !.research_plan =
                       <<[topic |-> s.topic,
                          questions |-> Questions(n),
                          estimated_duration_minutes |->
                              estimate_duration(Questions(n)),
                          research_strategy |-> "comprehensive_multi_source"]>>,
                   !.research_questions = Questions(n),
                   !.current_step = "planning_complete",
                   !.iteration_count = @ + 2]
    ELSE planner_handle_error(s, "planning_failed")

\* a planner that does not count its entries
planner_execute_never_counts(s, ok, n) ==
    IF ok
    THEN [s EXCEPT !.research_plan =
                       <<[topic |-> s.topic,
                          questions |-> Questions(n),
                          estimated_duration_minutes |->
                              estimate_duration(Questions(n)),
                          research_strategy |-> "comprehensive_multi_source"]>>,
                   !.research_questions = Questions(n),
                   !.current_step = "planning_complete"]
    ELSE planner_handle_error(s, "planning_failed")

planner_execute(s, ok, n) ==
    IF ok
    THEN LET research_questions == Questions(n)
             plan == [topic |-> s.topic,
                      questions |-> research_questions,
                      estimated_duration_minutes |->
                          estimate_duration(research_questions),
                      research_strategy |-> "comprehensive_multi_source"]
         IN [s EXCEPT !.research_plan = <<plan>>,
                      !.research_questions = research_questions,
                      !.current_step = "planning_complete",
                      !.iteration_count = @ + 1]
    ELSE planner_handle_error(s, "planning_failed")

----------------------------------------------------------------------------
(* InternalResearchAgent and ExternalResearchAgent.  hits is the number of *)
(* leading questions for which the provider returned one usable passage;   *)
(* a provider answers every question of a pass or none.                    *)

\* what a source provider does with the searches of one pass
ProviderOutcomes == {"raises", "empty", "results"}

\* _research_question catches whatever the search raises and returns []
internal_research_question(provider, questions) ==
    CASE provider = "raises" -> 0
      [] provider = "empty" -> 0
      [] provider = "results" -> Len(questions)

external_research_question(provider, questions) ==
    CASE provider = "raises" -> 0
      [] provider = "empty" -> 0
      [] provider = "results" -> Len(questions)

SourcesFor(type, questions, hits) ==
    [i \in 1..Min(hits, Len(questions)) |-> Source(type, questions[i])]

internal_handle_error(s) ==
    [s EXCEPT !.internal_sources = <<>>,
              !.errors = Append(@, Error("internal_research_failed",
                                         "internal_research")),
              !.current_step = IF s.current_step # "external_research"
                               THEN "internal_research"
                               ELSE "research_complete"]

internal_execute(s, ok, hits) ==
    IF ok
    THEN [s EXCEPT !.internal_sources =
                       SourcesFor("internal", s.research_questions, hits),
                   !.current_step = IF s.current_step # "external_research"
                                    THEN "internal_research"
                                    ELSE "research_complete"]
    ELSE internal_handle_error(s)

external_handle_error(s) ==
    [s EXCEPT !.external_sources = <<>>,
              !.errors = Append(@, Error("external_research_failed",
                                         "external_research")),
              !.current_step = IF s.current_step # "internal_research"
                               THEN "external_research"
                               ELSE "research_complete"]

external_execute(s, ok, hits) ==
    IF ok
    THEN [s EXCEPT !.external_sources =
                       SourcesFor("external", s.research_questions, hits),
                   !.current_step = IF s.current_step # "internal_research"
                                    THEN "external_research"
                                    ELSE "research_complete"]
    ELSE external_handle_error(s)

----------------------------------------------------------------------------
(* QualityAssessorAgent *)

\* a fallback that leaves the source pool of the previous assessment
quality_handle_error_keeps_pool(s) ==
    [s EXCEPT !.quality_score = DefaultQuality,
              !.errors = Append(@, Error("quality_assessment_failed",
                                         "quality_assessment")),
              !.current_step = "quality_assessed"]

quality_handle_error(s) ==
    [s EXCEPT !.quality_score = DefaultQuality,
              !.all_sources = s.internal_sources \o s.external_sources,
              !.errors = Append(@, Error("quality_assessment_failed",
                                         "quality_assessment")),
              !.current_step = "quality_assessed"]

\* an assessor that scores an empty question list 0 instead of dividing by
\* its length
quality_execute_guards_division(s, score) ==
    LET pool == s.internal_sources \o s.external_sources
        overall_score == IF pool = <<>> \/ s.research_questions = <<>>
                         THEN 0 ELSE score
    IN [s EXCEPT !.quality_assessment = <<[overall_score |-> overall_score]>>,
                 !.quality_score = overall_score,
                 !.all_sources = pool,
                 !.current_step = "quality_assessed"]

\* _assess_research_quality divides by len(questions): no question raises
\* ZeroDivisionError.  An empty pool scores 0 on every axis and leaves every
\* question a gap, so its overall score is 0; otherwise the score is the
\* weighted sum the sources and the completion provider's ratings give.
quality_execute(s, score) ==
    IF s.research_questions = <<>>
    THEN quality_handle_error(s)
    ELSE LET pool == s.internal_sources \o s.external_sources
             overall_score == IF pool = <<>> THEN 0 ELSE score
         IN [s EXCEPT !.quality_assessment =
                          <<[overall_score |-> overall_score]>>,
                      !.quality_score = overall_score,
                      !.all_sources = pool,
                      !.current_step = "quality_assessed"]

----------------------------------------------------------------------------
(* ReportGeneratorAgent *)

\* the sets of section tasks that fail in one generation
FailingSectionSets == {{}, {"key_findings"}}

handle_insufficient_sources(s) ==
    [s EXCEPT !.report_sections = [n \in SectionNames |-> "insufficient"],
              !.current_step = "sections_generated"]

\* a generator that gives up the whole stage when a section task raises
generator_execute_fails_wholesale(s, failing) ==
    IF s.all_sources = <<>>
    THEN handle_insufficient_sources(s)
    ELSE IF failing # {}
    THEN [s EXCEPT !.report_sections = <<>>,
                   !.errors = Append(@, Error("report_generation_failed",
                                              "report_generation")),
                   !.current_step = "error_recovery"]
    ELSE [s EXCEPT !.report_sections = [n \in SectionNames |-> "generated"],
                   !.current_step = "sections_generated"]

generator_execute(s, failing) ==
    IF s.all_sources = <<>>
    THEN handle_insufficient_sources(s)
    ELSE [s EXCEPT !.report_sections =
                       [n \in SectionNames |->
                           IF n \in failing THEN "error_placeholder"
                                            ELSE "generated"],
                   !.current_step = "sections_generated"]

----------------------------------------------------------------------------
(* ReportSynthesizerAgent *)

\* section_order of _synthesize_report; a heading is named by its section
SectionOrder == <<"executive_summary", "introduction", "key_findings",
                  "detailed_analysis", "conclusion", "references">>

handle_empty_sections(s) ==
    [s EXCEPT !.final_report = <<Report("minimal_report", <<>>)>>,
              !.end_time = <<"t">>,
              !.current_step = "report_complete"]

\* an error handler that leaves the run open
synthesizer_handle_error_not_terminal(s) ==
    [s EXCEPT !.final_report = <<Report("error_report", <<>>)>>,
              !.errors = Append(@, Error("report_synthesis_failed",
                                         "report_synthesis"))]

synthesizer_handle_error(s) ==
    [s EXCEPT !.final_report = <<Report("error_report", <<>>)>>,
              !.errors = Append(@, Error("report_synthesis_failed",
                                         "report_synthesis")),
              !.end_time = <<"t">>,
              !.current_step = "report_complete"]

\* what the completion provider does when asked for the consistency pass
Responses == {"raises", "faithful", "rewritten"}

\* The assembled report is short when it has fewer than 3000 characters;
\* only then is the completion provider asked, and what it answers becomes
\* the report: a faithful answer keeps the text of the sections, a rewritten
\* one need not contain any of it.  When the call raises, the assembled
\* report is returned.
post_process_report(report, short, response) ==
    IF short /\ response = "faithful"
    THEN [report EXCEPT !.post_processed = TRUE]
    ELSE IF short /\ response = "rewritten"
    THEN [report EXCEPT !.sections = <<>>, !.headings = <<>>,
                        !.post_processed = TRUE]
    ELSE report

\* an assembly that walks the sections from the last to the first
synthesize_report_reversed(sections, short, response) ==
    LET present == {n \in SectionNames \cap DOMAIN sections :
                       sections[n] # ""}
        reversed == [i \in 1..Len(SectionOrder) |->
                        SectionOrder[Len(SectionOrder) + 1 - i]]
        final_report == [kind |-> "research_report",
                         types |-> <<>>,
                         headings |->
                             SelectSeq(reversed, LAMBDA n : n \in present),
                         sections |-> [n \in present |-> sections[n]],
                         post_processed |-> FALSE]
    IN post_process_report(final_report, short, response)

\* the header, then in section_order every section that is present and not
\* empty under its heading, then the metadata
synthesize_report(sections, short, response) ==
    LET present == {n \in SectionNames \cap DOMAIN sections :
                       sections[n] # ""}
        final_report == [kind |-> "research_report",
                         types |-> <<>>,
                         headings |->
                             SelectSeq(SectionOrder, LAMBDA n : n \in present),
                         sections |-> [n \in present |-> sections[n]],
                         post_processed |-> FALSE]
    IN post_process_report(final_report, short, response)

\* _create_metadata_section calls .get on state.get("quality_assessment", {}),
\* which is None while no assessment has succeeded: AttributeError
synthesizer_execute(s, short, response) ==
    IF DOMAIN s.report_sections = {}
    THEN handle_empty_sections(s)
    ELSE IF s.quality_assessment = <<>>
    THEN synthesizer_handle_error(s)
    ELSE [s EXCEPT !.final_report =
                       <<synthesize_report(s.report_sections, short,
                                           response)>>,
                   !.end_time = <<"t">>,
                   !.processing_time = <<"seconds">>,
                   !.current_step = "report_complete"]

----------------------------------------------------------------------------
(* ResearchWorkflow: the nodes *)

planning_node(s, ok, n) ==
    planner_execute([s EXCEPT !.current_step = "planning",
                              !.start_time = IF @ = <<>> THEN <<"t">> ELSE @],
                    ok, n)

\* a merge that takes both source lists from the internal path's record
parallel_research_node_one_result(s, iok, ihits, eok, ehits, internal_first) ==
    LET entered == [s EXCEPT !.current_step = "internal_research"]
        first == IF internal_first
                 THEN internal_execute(entered, iok, ihits)
                 ELSE external_execute(entered, eok, ehits)
        shared == [entered EXCEPT !.errors = first.errors]
        internal_result == IF internal_first THEN first
                           ELSE internal_execute(shared, iok, ihits)
        external_result == IF internal_first
                           THEN external_execute(shared, eok, ehits)
                           ELSE first
        errors == IF internal_first THEN external_result.errors
                                    ELSE internal_result.errors
    IN [entered EXCEPT !.errors = errors,
                       !.internal_sources = internal_result.internal_sources,
                       !.external_sources = internal_result.external_sources,
                       !.current_step = "research_complete"]

\* a merge over two agents that each append to a list of their own: the
\* merged record gets the list of the agent that finished last
parallel_research_node_own_lists(s, iok, ihits, eok, ehits, internal_first) ==
    LET entered == [s EXCEPT !.current_step = "internal_research"]
        internal_result == internal_execute(entered, iok, ihits)
        external_result == external_execute(entered, eok, ehits)
        errors == IF internal_first THEN external_result.errors
                                    ELSE internal_result.errors
    IN [entered EXCEPT !.errors = errors,
                       !.internal_sources = internal_result.internal_sources,
                       !.external_sources = external_result.external_sources,
                       !.current_step = "research_complete"]

\* a merge that adds the lists of a pass to those the record already had
parallel_research_node_accumulates(s, iok, ihits, eok, ehits, internal_first) ==
    LET entered == [s EXCEPT !.current_step = "internal_research"]
        first == IF internal_first
                 THEN internal_execute(entered, iok, ihits)
                 ELSE external_execute(entered, eok, ehits)
        shared == [entered EXCEPT !.errors = first.errors]
        internal_result == IF internal_first THEN first
                           ELSE internal_execute(shared, iok, ihits)
        external_result == IF internal_first
                           THEN external_execute(shared, eok, ehits)
                           ELSE first
        errors == IF internal_first THEN external_result.errors
                                    ELSE internal_result.errors
    IN [entered EXCEPT !.errors = errors,
                       !.internal_sources =
                           s.internal_sources
                              \o internal_result.internal_sources,
                       !.external_sources =
                           s.external_sources
                              \o external_result.external_sources,
                       !.current_step = "research_complete"]

\* Both agents run on the same record and append to the same errors list;
\* internal_first is the order in which two failing agents reach their
\* handlers.  merged_state is a shallow copy of the record, so it sees the
\* list with both appends; it takes each agent's own source list.
parallel_research_node(s, iok, ihits, eok, ehits, internal_first) ==
    LET entered == [s EXCEPT !.current_step = "internal_research"]
        first == IF internal_first
                 THEN internal_execute(entered, iok, ihits)
                 ELSE external_execute(entered, eok, ehits)
        shared == [entered EXCEPT !.errors = first.errors]
        internal_result == IF internal_first THEN first
                           ELSE internal_execute(shared, iok, ihits)
        external_result == IF internal_first
                           THEN external_execute(shared, eok, ehits)
                           ELSE first
        errors == IF internal_first THEN external_result.errors
                                    ELSE internal_result.errors
    IN [entered EXCEPT !.errors = errors,
                       !.internal_sources = internal_result.internal_sources,
                       !.external_sources = external_result.external_sources,
                       !.current_step = "research_complete"]

quality_assessment_node(s, score) ==
    quality_execute([s EXCEPT !.current_step = "quality_assessment"], score)

report_generation_node(s, failing) ==
    generator_execute([s EXCEPT !.current_step = "report_generation"], failing)

synthesis_node(s, short, response) ==
    synthesizer_execute([s EXCEPT !.current_step = "report_synthesis"],
                        short, response)

error_recovery_node(s) ==
    IF Len(s.errors) > ErrorThreshold
    THEN [s EXCEPT !.final_report =
                       <<Report("multiple_errors", ErrorTypesOf(s.errors))>>,
                   !.current_step = "report_complete"]
    ELSE s

\* a router that tests the iteration cap before the critical errors
quality_router_cap_first(s) ==
    IF s.iteration_count >= MaxIterations
    THEN "generate_report"
    ELSE IF \E i \in 1..Len(s.errors) : IsCritical(s.errors[i])
    THEN "error"
    ELSE IF s.quality_score >= GoodQuality
    THEN "generate_report"
    ELSE IF s.quality_score >= ModerateQuality
    THEN "retry_research"
    ELSE "replan"

\* a router whose cap lets one more iteration through
quality_router_late_cap(s) ==
    IF \E i \in 1..Len(s.errors) : IsCritical(s.errors[i])
    THEN "error"
    ELSE IF s.iteration_count > MaxIterations
    THEN "generate_report"
    ELSE IF s.quality_score >= GoodQuality
    THEN "generate_report"
    ELSE IF s.quality_score >= ModerateQuality
    THEN "retry_research"
    ELSE "replan"

quality_router(s) ==
    IF \E i \in 1..Len(s.errors) : IsCritical(s.errors[i])
    THEN "error"
    ELSE IF s.iteration_count >= MaxIterations
    THEN "generate_report"
    ELSE IF s.quality_score >= GoodQuality
    THEN "generate_report"
    ELSE IF s.quality_score >= ModerateQuality
    THEN "retry_research"
    ELSE "replan"

\* a graph whose retry edge leads back to the planner
ConditionalEdges_retry_replans(r) ==
    CASE r = "generate_report" -> "report_generator"
      [] r = "retry_research" -> "planner"
      [] r = "replan" -> "planner"
      [] r = "error" -> "error_recovery"

\* add_conditional_edges("quality_assessor", ...)
ConditionalEdges(r) ==
    CASE r = "generate_report" -> "report_generator"
      [] r = "retry_research" -> "parallel_research"
      [] r = "replan" -> "planner"
      [] r = "error" -> "error_recovery"

\* add_edge
Edges(node) ==
    CASE node = "planner" -> "parallel_research"
      [] node = "parallel_research" -> "quality_assessor"
      [] node = "report_generator" -> "synthesizer"
      [] node = "synthesizer" -> "END"
      [] node = "error_recovery" -> "END"

Nodes == {"planner", "parallel_research", "quality_assessor",
          "report_generator", "synthesizer", "error_recovery"}

\* a guard that forgets to mark the run complete
error_state_keeps_step(initial, errors) ==
    [initial EXCEPT !.final_report =
                        <<Report("workflow_execution_failed", <<>>)>>,
                    !.errors = Append(errors,
                                      Error("workflow_execution_failed",
                                            "workflow_execution")),
                    !.end_time = <<"t">>]

\* a guard that starts again from the errors the caller handed in
error_state_drops_run_errors(initial, errors) ==
    [initial EXCEPT !.final_report =
                        <<Report("workflow_execution_failed", <<>>)>>,
                    !.errors = Append(initial.errors,
                                      Error("workflow_execution_failed",
                                            "workflow_execution")),
                    !.current_step = "report_complete",
                    !.end_time = <<"t">>]

\* a guard that returns no end timestamp
error_state_no_end_time(initial, errors) ==
    [initial EXCEPT !.final_report =
                        <<Report("workflow_execution_failed", <<>>)>>,
                    !.errors = Append(errors,
                                      Error("workflow_execution_failed",
                                            "workflow_execution")),
                    !.current_step = "report_complete"]

\* the record built by the except branch of execute
error_state(initial, errors) ==
    [initial EXCEPT !.final_report =
                        <<Report("workflow_execution_failed", <<>>)>>,
                    !.errors = Append(errors,
                                      Error("workflow_execution_failed",
                                            "workflow_execution")),
                    !.current_step = "report_complete",
                    !.end_time = <<"t">>]

----------------------------------------------------------------------------
(* The record the request handler builds (app.py conduct_research), and the *)
(* errors a caller may hand to execute with it.                            *)

ResearchState(topic, errors) ==
    [topic |-> topic,
     research_plan |-> <<>>,
     research_questions |-> <<>>,
     internal_sources |-> <<>>,
     external_sources |-> <<>>,
     all_sources |-> <<>>,
     quality_assessment |-> <<>>,
     quality_score |-> 0,
     report_sections |-> <<>>,
     final_report |-> <<>>,
     current_step |-> "initialized",
     iteration_count |-> 0,
     errors |-> errors,
     start_time |-> <<"t">>,
     end_time |-> <<>>,
     processing_time |-> <<>>]

PriorError == Error("upstream_failed", "upstream")
CriticalError == Error("critical_error", "upstream")

InitialErrors ==
    { <<>>,
      <<CriticalError>>,
      Repeat(PriorError, ErrorThreshold),
      Repeat(PriorError, ErrorThreshold) \o <<CriticalError>> }

\* no function is being applied, no fan-out and no service call under way
ServicesIdle ==
    /\ args = <<>>
    /\ result = <<>>
    /\ tasks = <<>>
    /\ semaphore = 0
    /\ clock = 0
    /\ last_request_time = 0
    /\ requests = <<>>

\* no research pass is waiting for its assessment
NoPass ==
    [internal |-> "none", external |-> "none",
     internal_produced |-> <<>>, external_produced |-> <<>>,
     errors_before |-> 0, errors_written_by |-> {}]

Init ==
    /\ \E errors \in InitialErrors :
          /\ initial_state = ResearchState(Topic, errors)
          /\ state = ResearchState(Topic, errors)
    /\ pc = "planner"
    /\ steps = 0
    /\ route = "none"
    /\ failures = 0
    /\ replans = 0
    /\ all_low = TRUE
    /\ research_pass = NoPass
    /\ all_empty = TRUE
    /\ section_failures = {}
    /\ ServicesIdle

----------------------------------------------------------------------------
(* One action per graph step *)

Failed(ok) == IF ok THEN 0 ELSE 1

\* a path that fails as a whole ends in its _handle_error
PathOutcome(ok, provider) == IF ok THEN provider ELSE "failed"

PlanningStep ==
    /\ pc = "planner"
    /\ steps < RecursionLimit
    /\ \E ok \in BOOLEAN, n \in 0..MaxQuestions :
          /\ failures + Failed(ok) <= MaxFailures
          /\ ok \/ n = 0
          /\ state' = planning_node(state, ok, n)
          /\ failures' = failures + Failed(ok)
    /\ pc' = Edges("planner")
    /\ steps' = steps + 1
    /\ UNCHANGED <<initial_state, route, replans, all_low, research_pass,
                   all_empty, section_failures>>
    /\ UNCHANGED service_vars

\* no search is made for an empty question list, and the searches of a path
\* that fails as a whole do not matter; errors_written_by names the branches
\* that changed the errors list of the record they were handed
ParallelResearchStep ==
    /\ pc = "parallel_research"
    /\ steps < RecursionLimit
    /\ \E iok \in BOOLEAN, eok \in BOOLEAN, internal_first \in BOOLEAN,
          iprovider \in ProviderOutcomes, eprovider \in ProviderOutcomes :
          LET questions == state.research_questions
              ihits == internal_research_question(iprovider, questions)
              ehits == external_research_question(eprovider, questions)
              entered == [state EXCEPT !.current_step = "internal_research"]
          IN /\ failures + Failed(iok) + Failed(eok) <= MaxFailures
             /\ (~iok \/ questions = <<>>) => iprovider = "empty"
             /\ (~eok \/ questions = <<>>) => eprovider = "empty"
             /\ internal_first \/ (~iok /\ ~eok)
             /\ state' = parallel_research_node(state, iok, ihits, eok, ehits,
                                                internal_first)
             /\ failures' = failures + Failed(iok) + Failed(eok)
             /\ research_pass' =
                   [internal |-> PathOutcome(iok, iprovider),
                    external |-> PathOutcome(eok, eprovider),
                    internal_produced |->
                        internal_execute(entered, iok, ihits).internal_sources,
                    external_produced |->
                        external_execute(entered, eok, ehits).external_sources,
                    errors_before |-> Len(state.errors),
                    errors_written_by |->
                        {b \in {"internal"} :
                            internal_execute(entered, iok, ihits).errors
                                # entered.errors}
                        \cup
                        {b \in {"external"} :
                            external_execute(entered, eok, ehits).errors
                                # entered.errors}]
             /\ all_empty' = /\ all_empty
                             /\ questions # <<>>
                             /\ iok /\ iprovider = "empty"
                             /\ eok /\ eprovider = "empty"
    /\ pc' = Edges("parallel_research")
    /\ steps' = steps + 1
    /\ UNCHANGED <<initial_state, route, replans, all_low, section_failures>>
    /\ UNCHANGED service_vars

QualityAssessmentStep ==
    /\ pc = "quality_assessor"
    /\ steps < RecursionLimit
    /\ \E score \in ScoreValues :
          state' = quality_assessment_node(state, score)
    /\ all_low' = (all_low /\ state'.quality_score < ModerateQuality)
    /\ research_pass' = NoPass
    /\ pc' = "quality_router"
    /\ steps' = steps + 1
    /\ UNCHANGED <<initial_state, route, failures, replans, all_empty,
                   section_failures>>
    /\ UNCHANGED service_vars

QualityRouterStep ==
    /\ pc = "quality_router"
    /\ route' = quality_router(state)
    /\ pc' = ConditionalEdges(route')
    /\ replans' = IF route' = "replan" THEN replans + 1 ELSE replans
    /\ UNCHANGED <<state, initial_state, steps, failures, all_low,
                   research_pass, all_empty, section_failures>>
    /\ UNCHANGED service_vars

\* one generation in which the section tasks of one of the given sets
\* raise; no section task is started on an empty pool
ReportGeneration(failing_sets) ==
    /\ pc = "report_generator"
    /\ steps < RecursionLimit
    /\ \E failing \in failing_sets :
          /\ state.all_sources = <<>> => failing = {}
          /\ state' = report_generation_node(state, failing)
          /\ section_failures' = failing
    /\ pc' = Edges("report_generator")
    /\ steps' = steps + 1
    /\ UNCHANGED <<initial_state, route, failures, replans, all_low,
                   research_pass, all_empty>>
    /\ UNCHANGED service_vars

ReportGenerationStep == ReportGeneration(FailingSectionSets)

\* the provider is not asked about a report that is not short
SynthesisStep ==
    /\ pc = "synthesizer"
    /\ steps < RecursionLimit
    /\ \E short \in BOOLEAN, response \in Responses :
          /\ short \/ response = "raises"
          /\ state' = synthesis_node(state, short, response)
    /\ pc' = Edges("synthesizer")
    /\ steps' = steps + 1
    /\ UNCHANGED <<initial_state, route, failures, replans, all_low,
                   research_pass, all_empty, section_failures>>
    /\ UNCHANGED service_vars

ErrorRecoveryStep ==
    /\ pc = "error_recovery"
    /\ steps < RecursionLimit
    /\ state' = error_recovery_node(state)
    /\ pc' = Edges("error_recovery")
    /\ steps' = steps + 1
    /\ UNCHANGED <<initial_state, route, failures, replans, all_low,
                   research_pass, all_empty, section_failures>>
    /\ UNCHANGED service_vars

\* GraphRecursionError escapes ainvoke and execute's except branch returns
GuardStep ==
    /\ pc \in Nodes
    /\ steps >= RecursionLimit
    /\ state' = error_state(initial_state, state.errors)
    /\ pc' = "END"
    /\ UNCHANGED <<initial_state, steps, route, failures, replans, all_low,
                   research_pass, all_empty, section_failures>>
    /\ UNCHANGED service_vars

Next ==
    \/ PlanningStep
    \/ ParallelResearchStep
    \/ QualityAssessmentStep
    \/ QualityRouterStep
    \/ ReportGenerationStep
    \/ SynthesisStep
    \/ ErrorRecoveryStep
    \/ GuardStep

Spec == Init /\ [][Next]_vars

\* the event loop runs a pending node to completion
FairSpec == Spec /\ WF_vars(Next)

----------------------------------------------------------------------------
(* The router alone, on records a caller may build *)

\* iteration counts the router is applied to
RouterMaxIterations == 4

RouterScores == {0, 39, 40, 69, 70, 100}

RouterErrors ==
    { <<>>,
      <<PriorError>>,
      <<CriticalError>>,
      <<PriorError, Error("noncritical_warning", "upstream")>>,
      <<CriticalError, PriorError>> }

InitRouter ==
    /\ \E errors \in RouterErrors, i \in 0..RouterMaxIterations,
          q \in RouterScores :
          /\ initial_state = ResearchState(Topic, errors)
          /\ state = [ResearchState(Topic, errors)
                         EXCEPT !.iteration_count = i,
                                !.quality_score = q,
                                !.current_step = "quality_assessed"]
    /\ pc = "quality_router"
    /\ steps = 0
    /\ route = "none"
    /\ failures = 0
    /\ replans = 0
    /\ all_low = TRUE
    /\ research_pass = NoPass
    /\ all_empty = TRUE
    /\ section_failures = {}
    /\ ServicesIdle

NextRouter == QualityRouterStep

SpecRouter == InitRouter /\ [][NextRouter]_vars

----------------------------------------------------------------------------
(* The Report Section Generator alone, on assessed records, with every set *)
(* of section tasks raising                                                *)

\* the source pools the generator is applied to
GeneratorPools ==
    { <<>>,
      <<Source("internal", 1)>>,
      <<Source("external", 1)>>,
      <<Source("internal", 1), Source("external", 1)>> }

InitGenerator ==
    /\ \E pool \in GeneratorPools :
          /\ initial_state = ResearchState(Topic, <<>>)
          /\ state = [ResearchState(Topic, <<>>)
                         EXCEPT !.research_questions = Questions(1),
                                !.iteration_count = 1,
                                !.internal_sources =
                                    SelectSeq(pool, LAMBDA x :
                                                x.source_type = "internal"),
                                !.external_sources =
                                    SelectSeq(pool, LAMBDA x :
                                                x.source_type = "external"),
                                !.all_sources = pool,
                                !.quality_assessment =
                                    <<[overall_score |-> GoodQuality]>>,
                                !.quality_score = GoodQuality,
                                !.current_step = "quality_assessed"]
    /\ pc = "report_generator"
    /\ steps = 3
    /\ route = "generate_report"
    /\ failures = 0
    /\ replans = 0
    /\ all_low = FALSE
    /\ research_pass = NoPass
    /\ all_empty = FALSE
    /\ section_failures = {}
    /\ ServicesIdle

GenerateSectionsStep == ReportGeneration(SUBSET SectionNames)

NextGenerator == GenerateSectionsStep

SpecGenerator == InitGenerator /\ [][NextGenerator]_vars

----------------------------------------------------------------------------
(* The Report Synthesizer alone, on records whose sections a generator or  *)
(* a caller may have left                                                  *)

\* what a section may hold: generated text, nothing, an error placeholder
SectionTexts == {"generated", "", "error_placeholder"}

SynthesizerSections ==
    [SectionNames -> SectionTexts]
        \cup {[n \in D |-> "generated"] : D \in SUBSET SectionNames}

InitSynthesizer ==
    /\ \E sections \in SynthesizerSections,
          assessment \in {<<>>, <<[overall_score |-> GoodQuality]>>} :
          /\ initial_state = ResearchState(Topic, <<>>)
          /\ state = [ResearchState(Topic, <<>>)
                         EXCEPT !.research_questions = Questions(1),
                                !.iteration_count = 1,
                                !.quality_assessment = assessment,
                                !.quality_score = GoodQuality,
                                !.report_sections = sections,
                                !.current_step = "sections_generated"]
    /\ pc = "synthesizer"
    /\ steps = 4
    /\ route = "generate_report"
    /\ failures = 0
    /\ replans = 0
    /\ all_low = FALSE
    /\ research_pass = NoPass
    /\ all_empty = FALSE
    /\ section_failures = {}
    /\ ServicesIdle

NextSynthesizer == SynthesisStep

SpecSynthesizer == InitSynthesizer /\ [][NextSynthesizer]_vars

----------------------------------------------------------------------------
(* One fan-out over the questions of a pass: a task per question, gathered *)
(* with return_exceptions; the external agent's tasks run under its        *)
(* semaphore.                                                              *)

\* questions in one fan-out
MaxFanOut == 4

\* external_researcher.py:19
ConcurrentSearches == 3

\* a semaphore that never makes a task wait
CanAcquire_always(value) == TRUE

\* asyncio.Semaphore: a task enters while the value is positive
CanAcquire(value) == value > 0

\* what the task of a question hands to gather: _research_question returns
\* [] when its searches raise
question_results(agent, question, outcome) ==
    IF outcome = "results" THEN <<Source(agent, question)>> ELSE <<>>

RECURSIVE Flatten(_)
\* internal_sources.append / external_sources.append, list after list
Flatten(lists) ==
    IF lists = <<>> THEN <<>> ELSE Head(lists) \o Flatten(Tail(lists))

\* a collection that loses what follows the first question whose research
\* failed
collect_results_until_failure(agent, questions, outcomes) ==
    Flatten([i \in 1..Len(questions) |->
                IF \E j \in 1..i : outcomes[j] = "raises"
                THEN <<>>
                ELSE question_results(agent, questions[i], outcomes[i])])

\* the loop over question_results: the sources of each question, in the
\* order of the questions
collect_results(agent, questions, outcomes) ==
    Flatten([i \in 1..Len(questions) |->
                question_results(agent, questions[i], outcomes[i])])

WorkflowIdle ==
    /\ initial_state = ResearchState(Topic, <<>>)
    /\ state = ResearchState(Topic, <<>>)
    /\ pc = "idle"
    /\ steps = 0
    /\ route = "none"
    /\ failures = 0
    /\ replans = 0
    /\ all_low = TRUE
    /\ research_pass = NoPass
    /\ all_empty = TRUE
    /\ section_failures = {}

InitFanOut ==
    /\ WorkflowIdle
    /\ \E agent \in {"internal", "external"}, n \in 1..MaxFanOut :
          /\ args = [agent |-> agent, questions |-> Questions(n)]
          /\ tasks = [q \in 1..Len(Questions(n)) |->
                         [status |-> "waiting", outcome |-> "none"]]
    /\ result = <<>>
    /\ semaphore = ConcurrentSearches
    /\ clock = 0
    /\ last_request_time = 0
    /\ requests = <<>>

\* the task of question q starts its research: at once in the internal
\* agent, through the semaphore in the external one
StartQuestion(q) ==
    /\ tasks[q].status = "waiting"
    /\ IF args.agent = "external"
       THEN /\ CanAcquire(semaphore)
            /\ semaphore' = semaphore - 1
       ELSE semaphore' = semaphore
    /\ tasks' = [tasks EXCEPT ![q].status = "running"]
    /\ UNCHANGED <<args, result, clock, last_request_time, requests>>
    /\ UNCHANGED workflow_vars

\* _research_question returns, with results or without
FinishQuestion(q) ==
    /\ tasks[q].status = "running"
    /\ \E outcome \in ProviderOutcomes :
          tasks' = [tasks EXCEPT ![q] = [status |-> "done",
                                         outcome |-> outcome]]
    /\ semaphore' = IF args.agent = "external" THEN semaphore + 1
                                                ELSE semaphore
    /\ UNCHANGED <<args, result, clock, last_request_time, requests>>
    /\ UNCHANGED workflow_vars

\* gather has returned: the loop collects the sources
CollectResults ==
    /\ result = <<>>
    /\ \A q \in DOMAIN tasks : tasks[q].status = "done"
    /\ result' = <<collect_results(args.agent, args.questions,
                                    [q \in DOMAIN tasks |->
                                        tasks[q].outcome])>>
    /\ UNCHANGED <<args, tasks, semaphore, clock, last_request_time,
                   requests>>
    /\ UNCHANGED workflow_vars

NextFanOut ==
    \/ \E q \in DOMAIN tasks : StartQuestion(q)
    \/ \E q \in DOMAIN tasks : FinishQuestion(q)
    \/ CollectResults

SpecFanOut == InitFanOut /\ [][NextFanOut]_vars

----------------------------------------------------------------------------
(* WebSearchService._rate_limit, called by the concurrent question tasks   *)
(* of one external research pass.  A tick of the clock is half a second.   *)

\* web_search_service.py:13, in ticks
RateLimitDelay == 2

\* question tasks that call the service
MaxCallers == 2
\* requests the tasks make in all
MaxRequests == 3
\* ticks the clock runs for
MaxClock == 6

\* the service was built long before the first call: time.time() is far
\* above the initial last_request_time of 0
InitRateLimit ==
    /\ WorkflowIdle
    /\ args = <<>>
    /\ result = <<>>
    /\ semaphore = 0
    /\ tasks = [c \in 1..MaxCallers |-> [status |-> "idle", wake_at |-> 0]]
    /\ clock = RateLimitDelay
    /\ last_request_time = 0
    /\ requests = <<>>

Sleeping == {c \in DOMAIN tasks : tasks[c].status = "sleeping"}

\* a task calls _rate_limit: it reads the clock and the shared timestamp
\* and either goes to sleep for the rest of the delay, or, without giving
\* up control, stamps the time and lets its request go
EnterRateLimit(c) ==
    /\ tasks[c].status = "idle"
    /\ Len(requests) + Cardinality(Sleeping) < MaxRequests
    /\ LET current_time == clock
           time_since_last == current_time - last_request_time
       IN IF time_since_last < RateLimitDelay
          THEN /\ tasks' = [tasks EXCEPT ![c] =
                               [status |-> "sleeping",
                                wake_at |-> clock + (RateLimitDelay
                                                      - time_since_last)]]
               /\ UNCHANGED <<last_request_time, requests>>
          ELSE /\ last_request_time' = clock
               /\ requests' = Append(requests, clock)
               /\ UNCHANGED tasks
    /\ UNCHANGED <<args, result, semaphore, clock>>
    /\ UNCHANGED workflow_vars

\* asyncio.sleep is over: the task stamps the time and lets its request go
WakeUp(c) ==
    /\ tasks[c].status = "sleeping"
    /\ clock >= tasks[c].wake_at
    /\ last_request_time' = clock
    /\ requests' = Append(requests, clock)
    /\ tasks' = [tasks EXCEPT ![c] = [status |-> "idle", wake_at |-> 0]]
    /\ UNCHANGED <<args, result, semaphore, clock>>
    /\ UNCHANGED workflow_vars

Tick ==
    /\ clock < MaxClock
    /\ clock' = clock + 1
    /\ UNCHANGED <<args, result, tasks, semaphore, last_request_time,
                   requests>>
    /\ UNCHANGED workflow_vars

NextRateLimit ==
    \/ \E c \in DOMAIN tasks : EnterRateLimit(c)
    \/ \E c \in DOMAIN tasks : WakeUp(c)
    \/ Tick

SpecRateLimit == InitRateLimit /\ [][NextRateLimit]_vars

----------------------------------------------------------------------------
(* What the two research agents do with the candidates they collected, and *)
(* what the references section lists.  prefix stands for the first 200     *)
(* characters of a candidate's content; long says that the content has at  *)
(* least 200 characters; scores are in hundredths.                         *)

\* candidates one agent collects in a pass
MaxCandidates == 27

\* internal_researcher.py:45
InternalLimit == 20
\* external_researcher.py:48
ExternalLimit == 25
\* report_generator.py:212
InternalReferences == 15
\* report_generator.py:219
ExternalReferences == 20
\* external_researcher.py:225
MinRelevance == 30
\* external_researcher.py:226
MinCredibility == 40

Truncate(s, n) == SubSeq(s, 1, Min(n, Len(s)))

RECURSIVE KeepAt(_, _)
\* the elements of s at the indices in keep, in order
KeepAt(s, keep) ==
    IF s = <<>> THEN <<>>
    ELSE KeepAt(SubSeq(s, 1, Len(s) - 1), keep)
            \o (IF Len(s) \in keep THEN <<s[Len(s)]>> ELSE <<>>)

\* a deduplication that only looks at the candidate just before
deduplicate_sources_adjacent(sources) ==
    KeepAt(sources, {i \in 1..Len(sources) :
                        i = 1 \/ sources[i - 1].prefix # sources[i].prefix})

\* the first candidate of each content prefix is kept
deduplicate_sources(sources) ==
    KeepAt(sources, {i \in 1..Len(sources) :
                        \A j \in 1..(i - 1) :
                            sources[j].prefix # sources[i].prefix})

filter_quality_sources(sources) ==
    SelectSeq(sources, LAMBDA s : /\ s.relevance_score >= MinRelevance
                                  /\ s.credibility_score >= MinCredibility
                                  /\ s.long)

\* the key each agent sorts by
sort_key(s) ==
    IF s.source_type = "internal"
    THEN s.relevance_score
    ELSE s.credibility_score * s.relevance_score

RECURSIVE sorted_reverse(_)
\* sorted(..., reverse=True): descending by key, equal keys in their order
sorted_reverse(sources) ==
    IF sources = <<>> THEN <<>>
    ELSE LET rest == sorted_reverse(SubSeq(sources, 1, Len(sources) - 1))
             x == sources[Len(sources)]
             before == Cardinality({i \in 1..Len(rest) :
                                       sort_key(rest[i]) >= sort_key(x)})
         IN SubSeq(rest, 1, before) \o <<x>>
               \o SubSeq(rest, before + 1, Len(rest))

\* an internal agent that keeps every source it found
internal_collect_all(candidates) ==
    sorted_reverse(deduplicate_sources(candidates))

internal_collect(candidates) ==
    Truncate(sorted_reverse(deduplicate_sources(candidates)), InternalLimit)

external_collect(candidates) ==
    Truncate(sorted_reverse(filter_quality_sources(candidates)),
             ExternalLimit)

generate_references(sources) ==
    [internal |-> Truncate(SelectSeq(sources, LAMBDA s :
                                        s.source_type = "internal"),
                           InternalReferences),
     external |-> Truncate(SelectSeq(sources, LAMBDA s :
                                        s.source_type = "external"),
                           ExternalReferences)]

\* candidate i of an agent: variety is the number of different content
\* prefixes among the candidates, spread the number of different scores
Candidate(agent, i, variety, spread) ==
    [source_type |-> agent,
     id |-> i,
     prefix |-> ((i - 1) % variety) + 1,
     relevance_score |-> 80 - 30 * (i % spread),
     credibility_score |-> IF agent = "internal" THEN 90
                           ELSE IF spread > 1 /\ i % 5 = 0 THEN 30 ELSE 60,
     long |-> (spread = 1 \/ i % 7 # 0)]

Candidates(agent, n, variety, spread) ==
    [i \in 1..n |-> Candidate(agent, i, variety, spread)]

InitCollect ==
    /\ WorkflowIdle
    /\ \E ni \in 0..MaxCandidates, ne \in 0..MaxCandidates,
          variety \in {1, 2, MaxCandidates}, spread \in {1, 3} :
          args = [internal |-> Candidates("internal", ni, variety, spread),
                  external |-> Candidates("external", ne, variety, spread)]
    /\ result = <<>>
    /\ tasks = <<>>
    /\ semaphore = 0
    /\ clock = 0
    /\ last_request_time = 0
    /\ requests = <<>>

\* both agents finish a pass, and the references are generated from the
\* pool of the two lists
CollectSources ==
    /\ result = <<>>
    /\ LET internal_sources == internal_collect(args.internal)
           external_sources == external_collect(args.external)
       IN result' = <<[internal_sources |-> internal_sources,
                       external_sources |-> external_sources,
                       references |->
                           generate_references(internal_sources
                                                  \o external_sources)]>>
    /\ UNCHANGED <<args, tasks, semaphore, clock, last_request_time,
                   requests>>
    /\ UNCHANGED workflow_vars

NextCollect == CollectSources

SpecCollect == InitCollect /\ [][NextCollect]_vars

----------------------------------------------------------------------------
(* ResearchPlannerAgent._generate_research_questions on the lines of a     *)
(* completion.  A line is known by its shape.                              *)

\* lines in one completion
MaxLines == 7

\* "1. What ...?", "- What ...?", "1. A statement.", "What ...?"
LineShapes == {"numbered_question", "bulleted_question",
               "numbered_statement", "plain_question"}

\* line.strip() and (line[0].isdigit() or line.startswith('-'))
IsListLine(line) ==
    line \in {"numbered_question", "bulleted_question", "numbered_statement"}

\* question.endswith('?')
EndsWithQuestionMark(line) ==
    line \in {"numbered_question", "bulleted_question", "plain_question"}

generate_research_questions(lines) ==
    Truncate(SelectSeq(lines, LAMBDA line : /\ IsListLine(line)
                                            /\ EndsWithQuestionMark(line)),
             QuestionLimit)

RECURSIVE Completions(_)
\* the completions of at most n lines
Completions(n) ==
    IF n = 0 THEN {<<>>}
    ELSE Completions(n - 1)
            \cup {Append(c, line) : c \in {d \in Completions(n - 1) :
                                               Len(d) = n - 1},
                                    line \in LineShapes}

InitQuestions ==
    /\ WorkflowIdle
    /\ \E lines \in Completions(MaxLines) : args = [lines |-> lines]
    /\ result = <<>>
    /\ tasks = <<>>
    /\ semaphore = 0
    /\ clock = 0
    /\ last_request_time = 0
    /\ requests = <<>>

ParseQuestions ==
    /\ result = <<>>
    /\ result' = <<generate_research_questions(args.lines)>>
    /\ UNCHANGED <<args, tasks, semaphore, clock, last_request_time,
                   requests>>
    /\ UNCHANGED workflow_vars

NextQuestions == ParseQuestions

SpecQuestions == InitQuestions /\ [][NextQuestions]_vars

----------------------------------------------------------------------------
(* QualityAssessorAgent._calculate_question_coverage for a question with   *)
(* attributed sources.  A score is a fraction of hundredths, so that the   *)
(* mean of the relevance scores is exact.                                  *)

\* sources attributed to the question
MaxCoverageSources == 3

Fraction(num, den) == [num |-> num, den |-> den]

RECURSIVE Sum(_)
Sum(s) == IF s = <<>> THEN 0 ELSE Head(s) + Sum(Tail(s))

\* what the completion provider does with the rating request: the call
\* raises, the answer is no number, or it is a number (in hundredths)
CoverageResponses ==
    {[kind |-> "raises"], [kind |-> "unparseable"]}
        \cup {[kind |-> "number", value |-> v] : v \in {-50, 0, 60, 100, 150}}

RECURSIVE RelevanceLists(_)
RelevanceLists(n) ==
    IF n = 0 THEN {<<>>}
    ELSE RelevanceLists(n - 1)
            \cup {Append(s, r) : s \in {d \in RelevanceLists(n - 1) :
                                            Len(d) = n - 1},
                                 r \in ScoreValues}

calculate_question_coverage(relevance_scores, response) ==
    IF relevance_scores = <<>> THEN Fraction(0, 1)
    ELSE IF response.kind = "raises"
    THEN Fraction(Sum(relevance_scores), Len(relevance_scores))
    ELSE IF response.kind = "unparseable"
    THEN Fraction(50, 1)
    ELSE Fraction(IF response.value < 0 THEN 0
                  ELSE IF response.value > 100 THEN 100
                  ELSE response.value, 1)

InitCoverage ==
    /\ WorkflowIdle
    /\ \E relevance_scores \in RelevanceLists(MaxCoverageSources),
          response \in CoverageResponses :
          args = [relevance_scores |-> relevance_scores,
                  response |-> response]
    /\ result = <<>>
    /\ tasks = <<>>
    /\ semaphore = 0
    /\ clock = 0
    /\ last_request_time = 0
    /\ requests = <<>>

RateCoverage ==
    /\ result = <<>>
    /\ result' = <<calculate_question_coverage(args.relevance_scores,
                                                args.response)>>
    /\ UNCHANGED <<args, tasks, semaphore, clock, last_request_time,
                   requests>>
    /\ UNCHANGED workflow_vars

NextCoverage == RateCoverage

SpecCoverage == InitCoverage /\ [][NextCoverage]_vars

----------------------------------------------------------------------------
(* ExternalResearchAgent._score_credibility and                            *)
(* QualityUtils.assess_source_credibility on the metadata of one result.   *)
(* A text is known by the indicator lists it matches.                      *)

\* the domain names one of the trusted words, else one of the medium-trust
\* words, else neither (an absent domain is "", which names none)
DomainKinds == {"trusted", "medium", "other"}

\* word counts on both sides of the two thresholds, 0 when absent
WordCounts == {0, 99, 100, 500, 501}

Cap(x) == IF x > 100 THEN 100 ELSE x

Floor(x) == IF x < 0 THEN 0 ELSE x

score_credibility(domain, https, long_content) ==
    LET credibility == 50
                       + (IF domain = "trusted" THEN 30
                          ELSE IF domain = "medium" THEN 10 ELSE 0)
                       + (IF https THEN 10 ELSE 0)
                       + (IF long_content THEN 10 ELSE 0)
    IN Cap(credibility)

\* an assessment that returns the sum as it is
assess_source_credibility_unclamped(high, med, low, https, word_count, dated) ==
    50 + (IF high THEN 30 ELSE 0)
       + (IF med THEN 10 ELSE 0)
       - (IF low THEN 20 ELSE 0)
       + (IF https THEN 10 ELSE 0)
       + (IF word_count > 500 THEN 10
          ELSE IF word_count < 100 THEN -10 ELSE 0)
       + (IF dated THEN 5 ELSE 0)

assess_source_credibility(high, med, low, https, word_count, dated) ==
    LET credibility_score ==
            50 + (IF high THEN 30 ELSE 0)
               + (IF med THEN 10 ELSE 0)
               - (IF low THEN 20 ELSE 0)
               + (IF https THEN 10 ELSE 0)
               + (IF word_count > 500 THEN 10
                  ELSE IF word_count < 100 THEN -10 ELSE 0)
               + (IF dated THEN 5 ELSE 0)
    IN Floor(Cap(credibility_score))

InitCredibility ==
    /\ WorkflowIdle
    /\ \E domain \in DomainKinds, https \in BOOLEAN, long_content \in BOOLEAN,
          high \in BOOLEAN, med \in BOOLEAN, low \in BOOLEAN,
          word_count \in WordCounts, dated \in BOOLEAN :
          args = [domain |-> domain, https |-> https,
                  long_content |-> long_content, high |-> high, med |-> med,
                  low |-> low, word_count |-> word_count, dated |-> dated]
    /\ result = <<>>
    /\ tasks = <<>>
    /\ semaphore = 0
    /\ clock = 0
    /\ last_request_time = 0
    /\ requests = <<>>

ScoreCredibility ==
    /\ result = <<>>
    /\ result' = <<[external |-> score_credibility(args.domain, args.https,
                                                   args.long_content),
                    utility |-> assess_source_credibility(
                                    args.high, args.med, args.low, args.https,
                                    args.word_count, args.dated)]>>
    /\ UNCHANGED <<args, tasks, semaphore, clock, last_request_time,
                   requests>>
    /\ UNCHANGED workflow_vars

NextCredibility == ScoreCredibility

SpecCredibility == InitCredibility /\ [][NextCredibility]_vars

----------------------------------------------------------------------------
(* QualityAssessorAgent._assess_research_quality on the two source lists   *)
(* of a pass.  A score is a Fraction of hundredths (1.0 is 100/1), so the  *)
(* ratios and means of the code are exact.                                 *)

\* sources in each of the two lists
MaxAssessedSources == 2

\* the question lists an assessment that does not fail is made over
AssessedQuestions == {<<1>>, <<1, 2>>}

RECURSIVE GCD(_, _)
GCD(a, b) == IF b = 0 THEN a ELSE GCD(b, a % b)

\* num / den in lowest terms; den is positive
Lowest(num, den) ==
    LET g == GCD(IF num < 0 THEN -num ELSE num, den)
    IN Fraction(num \div g, den \div g)

FAdd(a, b) == Lowest(a.num * b.den + b.num * a.den, a.den * b.den)

\* a * n / d, for a positive d
FScale(a, n, d) == Lowest(a.num * n, a.den * d)

FLeq(a, b) == a.num * b.den <= b.num * a.den

FEq(a, b) == a.num * b.den = b.num * a.den

FAbs(a) == Fraction(IF a.num < 0 THEN -a.num ELSE a.num, a.den)

\* max(0.0, min(1.0, a))
Clamp(a) ==
    IF FLeq(a, Fraction(0, 1)) THEN Fraction(0, 1)
    ELSE IF FLeq(Fraction(100, 1), a) THEN Fraction(100, 1)
    ELSE a

RelatedTo(question, sources) ==
    SelectSeq(sources, LAMBDA s : s.question = question)

RelevanceOf(sources) == [i \in 1..Len(sources) |-> sources[i].relevance_score]

\* a diversity score that is returned as computed
assess_source_diversity_unclamped(internal_sources, external_sources) ==
    LET ni == Len(internal_sources)
        ne == Len(external_sources)
        total_sources == ni + ne
        internal_ratio == Fraction(100 * ni, total_sources)
        internal_score ==
            FAdd(Fraction(100, 1),
                 FScale(FAbs(FAdd(internal_ratio, Fraction(-40, 1))), -5, 2))
        external_domains == {external_sources[i].domain : i \in 1..ne}
        domain_diversity ==
            IF ne = 0 THEN Fraction(0, 1)
            ELSE Fraction(100 * Cardinality(external_domains), ne)
    IN IF total_sources = 0 THEN Fraction(0, 1)
       ELSE FAdd(FScale(internal_score, 3, 5), FScale(domain_diversity, 2, 5))

assess_source_diversity(internal_sources, external_sources) ==
    LET ni == Len(internal_sources)
        ne == Len(external_sources)
        total_sources == ni + ne
        internal_ratio == Fraction(100 * ni, total_sources)
        internal_score ==
            FAdd(Fraction(100, 1),
                 FScale(FAbs(FAdd(internal_ratio, Fraction(-40, 1))), -5, 2))
        external_domains == {external_sources[i].domain : i \in 1..ne}
        domain_diversity ==
            IF ne = 0 THEN Fraction(0, 1)
            ELSE Fraction(100 * Cardinality(external_domains), ne)
        diversity_score ==
            FAdd(FScale(internal_score, 3, 5), FScale(domain_diversity, 2, 5))
    IN IF total_sources = 0 THEN Fraction(0, 1) ELSE Clamp(diversity_score)

RECURSIVE FSum(_)
FSum(s) == IF s = <<>> THEN Fraction(0, 1) ELSE FAdd(Head(s), FSum(Tail(s)))

assess_content_coverage(questions, sources, response) ==
    IF questions = <<>> \/ sources = <<>> THEN Fraction(0, 1)
    ELSE LET coverage_scores ==
                 [q \in 1..Len(questions) |->
                     calculate_question_coverage(
                         RelevanceOf(RelatedTo(questions[q], sources)),
                         response)]
         IN FScale(FSum(coverage_scores), 1, Len(coverage_scores))

assess_overall_credibility(sources) ==
    IF sources = <<>> THEN Fraction(0, 1)
    ELSE Fraction(Sum([i \in 1..Len(sources) |->
                          sources[i].credibility_score]),
                  Len(sources))

identify_information_gaps(questions, sources) ==
    SelectSeq(questions,
              LAMBDA question :
                  LET related_sources == RelatedTo(question, sources)
                      total_content ==
                          Sum([i \in 1..Len(related_sources) |->
                                  related_sources[i].content_length])
                  IN \/ related_sources = <<>>
                     \/ total_content < 1000
                     \/ Sum(RelevanceOf(related_sources))
                           < 40 * Len(related_sources))

assess_research_quality(questions, internal_sources, external_sources, response) ==
    LET source_diversity ==
            assess_source_diversity(internal_sources, external_sources)
        content_coverage ==
            assess_content_coverage(questions,
                                    internal_sources \o external_sources,
                                    response)
        source_credibility ==
            assess_overall_credibility(internal_sources \o external_sources)
        information_gaps ==
            identify_information_gaps(questions,
                                      internal_sources \o external_sources)
        overall_score ==
            FAdd(FAdd(FScale(source_diversity, 1, 5),
                      FScale(content_coverage, 2, 5)),
                 FAdd(FScale(source_credibility, 3, 10),
                      FScale(Fraction(100 * (Len(questions)
                                               - Len(information_gaps)),
                                      Len(questions)),
                             1, 10)))
    IN [source_diversity |-> source_diversity,
        content_coverage |-> content_coverage,
        source_credibility |-> source_credibility,
        information_gaps |-> information_gaps,
        overall_score |-> overall_score]

\* an internal source is a long relevant passage or a short irrelevant one;
\* its credibility is the 0.9 the internal agent gives
InternalSourcesFor(questions) ==
    {[source_type |-> "internal", question |-> questions[q],
      relevance_score |-> k[1], content_length |-> k[2],
      credibility_score |-> 90, domain |-> "internal"] :
        q \in 1..Len(questions), k \in {<<100, 1200>>, <<30, 300>>}}

\* an external source comes from one of two domains, with the credibility
\* scored for it
ExternalSourcesFor(questions) ==
    {[source_type |-> "external", question |-> questions[q],
      relevance_score |-> 50, content_length |-> 600,
      credibility_score |-> k[1], domain |-> k[2]] :
        q \in 1..Len(questions), k \in {<<100, "a">>, <<0, "b">>}}

RECURSIVE ListsOver(_, _)
\* the sequences of at most n elements of S
ListsOver(S, n) ==
    IF n = 0 THEN {<<>>}
    ELSE ListsOver(S, n - 1)
            \cup {Append(s, x) : s \in {d \in ListsOver(S, n - 1) :
                                           Len(d) = n - 1},
                                 x \in S}

InitAssessment ==
    /\ WorkflowIdle
    /\ \E questions \in AssessedQuestions, response \in CoverageResponses :
          \E internal_sources \in ListsOver(InternalSourcesFor(questions),
                                            MaxAssessedSources),
             external_sources \in ListsOver(ExternalSourcesFor(questions),
                                            MaxAssessedSources) :
             args = [questions |-> questions,
                     internal_sources |-> internal_sources,
                     external_sources |-> external_sources,
                     response |-> response]
    /\ result = <<>>
    /\ tasks = <<>>
    /\ semaphore = 0
    /\ clock = 0
    /\ last_request_time = 0
    /\ requests = <<>>

AssessQuality ==
    /\ result = <<>>
    /\ result' = <<assess_research_quality(args.questions,
                                           args.internal_sources,
                                           args.external_sources,
                                           args.response)>>
    /\ UNCHANGED <<args, tasks, semaphore, clock, last_request_time,
                   requests>>
    /\ UNCHANGED workflow_vars

NextAssessment == AssessQuality

SpecAssessment == InitAssessment /\ [][NextAssessment]_vars

----------------------------------------------------------------------------
(* Claims *)

Fresh == initial_state.errors = <<>>

Done == pc = "END"

\* what is left of the run: each node execution uses one of the
\* RecursionLimit steps, the router is consulted between two of them
Remaining ==
    IF Done THEN 0
    ELSE 2 * (RecursionLimit - steps) + (IF pc = "quality_router" THEN 2 ELSE 1)

\* C1: every run of execute ends: until it has returned it can always take a
\* step, and every step uses up part of a finite budget; the record a run on a
\* fresh record returns has current_step REPORT_COMPLETE, whatever the
\* providers do.
C1_ExecuteTerminates ==
    /\ [](Done \/ ENABLED Next)
    /\ [](Remaining >= 0)
    /\ [][Remaining' < Remaining]_vars
    /\ [](Done /\ Fresh => state.current_step = "report_complete")

\* a fresh run that looped until the guard ended it
C1_Witness ==
    /\ Done
    /\ Fresh
    /\ state.final_report = <<Report("workflow_execution_failed", <<>>)>>
    /\ state.current_step = "report_complete"

\* C2: iteration_count never decreases, and every Planner invocation, failed
\* or not, adds exactly 1 to it.
C2_IterationCountPerPlannerEntry ==
    [][/\ state'.iteration_count >= state.iteration_count
       /\ (pc = "planner" /\ pc' = "parallel_research"
              => state'.iteration_count = state.iteration_count + 1)]_vars

HasCritical(errors) ==
    \E i \in 1..Len(errors) : errors[i].type \in CriticalTypes

\* the route the specification's priority list gives
ExpectedRoute(errors, iteration_count, quality_score) ==
    CASE HasCritical(errors) -> "error"
      [] ~HasCritical(errors) /\ iteration_count >= 3 -> "generate_report"
      [] ~HasCritical(errors) /\ iteration_count < 3 /\ quality_score >= 70
            -> "generate_report"
      [] ~HasCritical(errors) /\ iteration_count < 3 /\ quality_score < 70
            /\ quality_score >= 40 -> "retry_research"
      [] ~HasCritical(errors) /\ iteration_count < 3 /\ quality_score < 40
            -> "replan"

\* C3: the router's result is the route the priority list gives for
\* (errors, iteration_count, quality_score), and consulting the router
\* changes no field of the record.
C3_RouterPriority ==
    [][pc = "quality_router"
          => /\ state' = state
             /\ route' = ExpectedRoute(state.errors, state.iteration_count,
                                       state.quality_score)]_vars

\* a critical error wins over the reached cap and a good score
C3_Witness ==
    /\ route = "error"
    /\ pc = "error_recovery"
    /\ state.iteration_count >= 3
    /\ state.quality_score >= 70

\* C4: whenever the router is consulted in a run with iteration_count >= 3,
\* it returns generate_report, whatever the quality score.
C4_CapForcesReport ==
    [][pc = "quality_router" /\ state.iteration_count >= 3
          => route' = "generate_report"]_vars

\* the cap has sent a run scoring 0 to the report generator
C4_Witness ==
    /\ pc = "report_generator"
    /\ route = "generate_report"
    /\ state.iteration_count >= 3
    /\ state.quality_score = 0

\* C5: a run that has ended took the generate_report or the error route: the
\* retry and replan loops do not go on until something else ends the run.
C5_CyclesEndByRoute ==
    Done => route \in {"generate_report", "error"}

NoPlanningFailure ==
    \A i \in 1..Len(state.errors) : state.errors[i].type # "planning_failed"

\* C6 as stated: with every assessment below 0.4 and planning succeeding, the
\* router forces generate_report after four replan routes, at
\* iteration_count 4.
C6_FourReplans ==
    (pc = "report_generator" /\ all_low /\ NoPlanningFailure)
        => (replans = 4 /\ state.iteration_count = 4)

\* C6 as amended: with every assessment below 0.4 and planning succeeding,
\* two replan routes occur; at the 3rd Planner entry iteration_count is 3 and
\* the router then forces generate_report, after at most 9 node executions.
C6_TwoReplans ==
    (all_low /\ NoPlanningFailure)
        => /\ replans <= 2
           /\ state.iteration_count <= 3
           /\ (pc \in {"planner", "parallel_research", "quality_assessor",
                       "quality_router"} => steps <= 9)
           /\ (pc = "report_generator"
                  => /\ route = "generate_report"
                     /\ replans = 2
                     /\ state.iteration_count = 3)

C6_Witness ==
    /\ pc = "report_generator"
    /\ all_low
    /\ NoPlanningFailure
    /\ state.quality_score < 40
    /\ replans = 2
    /\ state.iteration_count = 3

\* C7: the retry_research route leads to the Parallel Researcher, and the
\* research pass that follows leaves iteration_count, the plan and the
\* questions as they were.
C7_RetryKeepsPlan ==
    [][/\ (pc = "quality_router" /\ route' = "retry_research"
              => pc' = "parallel_research")
       /\ (pc = "parallel_research" /\ route = "retry_research"
           /\ pc' = "quality_assessor"
              => /\ state'.iteration_count = state.iteration_count
                 /\ state'.research_plan = state.research_plan
                 /\ state'.research_questions = state.research_questions)]_vars

\* a retried research pass has run on a planned record
C7_Witness ==
    /\ pc = "quality_assessor"
    /\ route = "retry_research"
    /\ state.current_step = "research_complete"
    /\ state.iteration_count = 1
    /\ state.research_plan # <<>>
    /\ state.research_questions # <<>>

\* C8: a run that ends with more than 5 recorded errors ends with the failure
\* report that lists the error kinds.
C8_ErrorThresholdShortCircuits ==
    (Done /\ Len(state.errors) > 5)
        => \E types \in {ErrorTypesOf(SubSeq(state.errors, 1, n)) :
                            n \in 0..Len(state.errors)} :
              state.final_report = <<Report("multiple_errors", types)>>

IsPrefix(a, b) == Len(a) <= Len(b) /\ SubSeq(b, 1, Len(a)) = a

HasErrorOfType(errors, type) ==
    \E i \in 1..Len(errors) : errors[i].type = type

\* C11: errors is append-only within a run: across every stage, and across
\* the step in which the top-level guard builds the record it returns, the
\* earlier errors sequence is a prefix of the later one.
C11_ErrorsAppendOnly ==
    [][IsPrefix(state.errors, state'.errors)]_vars

\* the guard has returned a record that still carries the errors two stages
\* of the run recorded
C11_Witness ==
    /\ Done
    /\ Fresh
    /\ HasErrorOfType(state.errors, "workflow_execution_failed")
    /\ HasErrorOfType(state.errors, "planning_failed")
    /\ HasErrorOfType(state.errors, "quality_assessment_failed")

\* the graph execution raises: the recursion limit is exhausted with a node
\* still to run
ExceptionEscapes == pc \in Nodes /\ steps >= RecursionLimit

\* C12: when an exception escapes the graph execution, execute returns a
\* record with current_step REPORT_COMPLETE, an end timestamp, a final
\* report, and one more error, of kind workflow_execution_failed.
C12_GuardReturnsTerminalRecord ==
    [][ExceptionEscapes
          => /\ pc' = "END"
             /\ state'.current_step = "report_complete"
             /\ state'.end_time # <<>>
             /\ state'.final_report # <<>>
             /\ Len(state'.errors) = Len(state.errors) + 1
             /\ state'.errors[Len(state'.errors)].type =
                    "workflow_execution_failed"]_vars

\* the guard has returned after the retry loop used up the recursion limit
C12_Witness ==
    /\ Done
    /\ steps = RecursionLimit
    /\ route = "retry_research"
    /\ state.current_step = "report_complete"
    /\ state.end_time # <<>>
    /\ state.final_report # <<>>
    /\ HasErrorOfType(state.errors, "workflow_execution_failed")

\* the errors the last research pass recorded
PassErrors ==
    SubSeq(state.errors, research_pass.errors_before + 1, Len(state.errors))

\* C13: when the internal provider raises during a research pass and the
\* external provider succeeds, the pass ends with internal_sources empty,
\* exactly one internal_research_failed error recorded, and external_sources
\* as the external path produced them; Quality Assessment runs next and
\* completes.
C13_ProviderExceptionRecorded ==
    [][(/\ pc = "quality_assessor"
        /\ research_pass.internal = "raises"
        /\ research_pass.external \in {"empty", "results"})
          => /\ state.internal_sources = <<>>
             /\ PassErrors = <<Error("internal_research_failed",
                                     "internal_research")>>
             /\ state.external_sources = research_pass.external_produced
             /\ (steps < RecursionLimit
                    => /\ pc' = "quality_router"
                       /\ state'.current_step = "quality_assessed")]_vars

\* C14: when one research path fails as a whole in a pass and the other does
\* not, the other path's source list is what that path produced, the failed
\* path's list is empty, and the pass appended exactly one error, of the
\* failed path's kind.
C14_PathFailureIsolated ==
    /\ (/\ pc = "quality_assessor"
        /\ research_pass.internal = "failed"
        /\ research_pass.external \notin {"failed", "none"})
          => /\ state.external_sources = research_pass.external_produced
             /\ state.internal_sources = <<>>
             /\ PassErrors = <<Error("internal_research_failed",
                                     "internal_research")>>
    /\ (/\ pc = "quality_assessor"
        /\ research_pass.external = "failed"
        /\ research_pass.internal \notin {"failed", "none"})
          => /\ state.internal_sources = research_pass.internal_produced
             /\ state.external_sources = <<>>
             /\ PassErrors = <<Error("external_research_failed",
                                     "external_research")>>

\* a retried pass in which the internal path failed as a whole replaced a
\* non-empty internal list by the empty one and kept the external results
C14_Witness ==
    /\ pc = "quality_assessor"
    /\ route = "retry_research"
    /\ research_pass.internal = "failed"
    /\ research_pass.external = "results"
    /\ state.internal_sources = <<>>
    /\ state.external_sources # <<>>
    /\ state.all_sources # state.external_sources

\* C15: when the Planner fails it does not raise, it appends exactly one
\* planning_failed error with stage "planning", and the Error Recovery stage
\* runs next instead of the research stage.
C15_PlannerFailureRunsRecovery ==
    [][(pc = "planner" /\ failures' = failures + 1)
          => /\ state'.errors =
                    Append(state.errors, Error("planning_failed", "planning"))
             /\ state'.current_step = "error_recovery"
             /\ pc' = "error_recovery"]_vars

\* C16: when quality assessment fails internally, the record it returns has
\* a default assessment of overall score 0.6 (quality_assessment set,
\* quality_score 0.6), one more error, quality_assessment_failed, and
\* all_sources equal to the internal sources followed by the external ones.
C16_AssessmentFallback ==
    [][(/\ pc = "quality_assessor"
        /\ pc' = "quality_router"
        /\ Len(state'.errors) > Len(state.errors))
          => /\ state'.quality_assessment = <<[overall_score |-> 60]>>
             /\ state'.quality_score = 60
             /\ state'.errors =
                    Append(state.errors, Error("quality_assessment_failed",
                                               "quality_assessment"))
             /\ state'.all_sources =
                    state.internal_sources \o state.external_sources]_vars

\* C17: once the Quality Assessor has completed, by success or by its
\* fallback, and so whenever the router or the Report Section Generator
\* reads the record, all_sources is internal_sources followed by
\* external_sources.
C17_AllSourcesIsConcatenation ==
    pc \in {"quality_router", "report_generator"}
        => state.all_sources = state.internal_sources \o state.external_sources

\* the generator is about to read a pool made of both kinds of sources
C17_Witness ==
    /\ pc = "report_generator"
    /\ state.internal_sources # <<>>
    /\ state.external_sources # <<>>
    /\ state.all_sources = state.internal_sources \o state.external_sources

\* the current_step values a node execution may lead from and to in the
\* state machine of the stages
StagePath ==
    { <<"initialized", "planning_complete">>,
      <<"planning_complete", "research_complete">>,
      <<"research_complete", "quality_assessed">>,
      <<"quality_assessed", "research_complete">>,
      <<"quality_assessed", "planning_complete">>,
      <<"quality_assessed", "sections_generated">>,
      <<"quality_assessed", "error_recovery">>,
      <<"sections_generated", "report_complete">>,
      <<"error_recovery", "report_complete">> }

\* C18: current_step reflects the last stage entered: every node execution
\* moves it along the state machine of the stages, and its value is
\* ERROR_RECOVERY only when the Error Recovery stage was entered.
C18_StepReflectsStage ==
    [][(pc \in Nodes /\ steps' = steps + 1)
          => /\ <<state.current_step, state'.current_step>> \in StagePath
             /\ (state'.current_step = "error_recovery"
                    => pc = "error_recovery")]_vars

\* the report carries the text of the insufficient-data placeholders
ContainsInsufficientText(report) ==
    /\ report.kind = "research_report"
    /\ "conclusion" \in DOMAIN report.sections
    /\ report.sections["conclusion"] = "insufficient"

\* C19: when both providers return empty lists in every pass, the run ends
\* with all_sources empty, with the six insufficient-data placeholders as
\* its report sections, and with a final report that contains the
\* placeholder text "insufficient source material".
C19_EmptyProvidersGiveInsufficientReport ==
    (Done /\ Fresh /\ all_empty)
        => /\ state.all_sources = <<>>
           /\ state.report_sections = [n \in SectionNames |-> "insufficient"]
           /\ state.final_report # <<>>
           /\ ContainsInsufficientText(state.final_report[1])

\* C20: with a non-empty source pool, whichever set of the six section tasks
\* raises, the generator returns all six section names, an error placeholder
\* for each section whose task raised and the generated text for each other
\* one, and the stage ends in SECTIONS_GENERATED.
C20_SectionFailuresIsolated ==
    (pc = "synthesizer" /\ state.all_sources # <<>>)
        => /\ DOMAIN state.report_sections = SectionNames
           /\ \A n \in SectionNames :
                 /\ n \in section_failures
                       => state.report_sections[n] = "error_placeholder"
                 /\ n \notin section_failures
                       => state.report_sections[n] = "generated"
           /\ state.current_step = "sections_generated"

\* all six section tasks raised and all six names are still there
C20_Witness ==
    /\ pc = "synthesizer"
    /\ state.all_sources # <<>>
    /\ section_failures = SectionNames
    /\ DOMAIN state.report_sections = SectionNames
    /\ \A n \in SectionNames : state.report_sections[n] = "error_placeholder"
    /\ state.current_step = "sections_generated"

\* C21: the Report Synthesizer never raises and always ends the run: with
\* sections present, with no sections, and when synthesis throws, it returns
\* a record with final_report set, end_time set and current_step
\* REPORT_COMPLETE.
C21_SynthesizerAlwaysTerminal ==
    /\ pc = "synthesizer" => ENABLED SynthesisStep
    /\ pc = "END"
          => /\ state.final_report # <<>>
             /\ state.final_report[1].kind \in
                    {"research_report", "minimal_report", "error_report"}
             /\ state.end_time # <<>>
             /\ state.current_step = "report_complete"

\* synthesis threw on a record without an assessment and the error report
\* ended the run
C21_Witness ==
    /\ pc = "END"
    /\ state.quality_assessment = <<>>
    /\ DOMAIN state.report_sections = SectionNames
    /\ state.final_report = <<Report("error_report", <<>>)>>
    /\ HasErrorOfType(state.errors, "report_synthesis_failed")
    /\ state.end_time # <<>>
    /\ state.current_step = "report_complete"

\* the Synthesizer returned the report it assembled from all six sections
AssembledFromSix ==
    /\ pc = "END"
    /\ DOMAIN state.report_sections = SectionNames
    /\ state.final_report # <<>>
    /\ state.final_report[1].kind = "research_report"
    /\ ~state.final_report[1].post_processed

\* C22 as stated: whenever the sections mapping holds the six section names,
\* the assembled report has the six headings, each once and in the fixed
\* order, whatever the sections contain.
C22_SixHeadingsWhateverContent ==
    AssembledFromSix => state.final_report[1].headings = SectionOrder

\* C22 as amended: whenever the sections mapping holds the six section
\* names, the assembled report has the headings of the sections whose
\* content is not empty, each once and in the fixed order: all six when no
\* content is empty.
C22_HeadingsOfNonEmptySections ==
    AssembledFromSix
        => /\ state.final_report[1].headings =
                  SelectSeq(SectionOrder,
                            LAMBDA n : state.report_sections[n] # "")
           /\ ((\A n \in SectionNames : state.report_sections[n] # "")
                  => state.final_report[1].headings = SectionOrder)

\* a report assembled from six sections of which two are empty
C22_Witness ==
    /\ AssembledFromSix
    /\ state.report_sections["introduction"] = ""
    /\ state.report_sections["references"] = ""
    /\ state.final_report[1].headings =
           <<"executive_summary", "key_findings", "detailed_analysis",
             "conclusion">>

\* the question-level searches in flight
InFlight == {q \in DOMAIN tasks : tasks[q].status = "running"}

\* what is left of a fan-out: a waiting task has two steps to take, a
\* running one has one, and the collection is one more
FanOutRemaining ==
    IF result # <<>> THEN 0
    ELSE 1 + Cardinality(InFlight)
           + 2 * Cardinality({q \in DOMAIN tasks :
                                 tasks[q].status = "waiting"})

\* C23: during an external research pass at most 3 question-level searches
\* are in flight at any instant, whatever the number of questions, and every
\* question's search runs: until all results are collected some task can
\* take a step, and every step brings the collection nearer.
C23_AtMostThreeInFlight ==
    /\ [](args.agent = "external"
            => /\ Cardinality(InFlight) <= 3
               /\ semaphore = 3 - Cardinality(InFlight))
    /\ [](result # <<>> \/ ENABLED NextFanOut)
    /\ [][FanOutRemaining' < FanOutRemaining]_vars
    /\ [](result # <<>> => \A q \in DOMAIN tasks : tasks[q].status = "done")

\* three searches are in flight and a fourth question waits its turn
C23_Witness ==
    /\ args.agent = "external"
    /\ Cardinality(InFlight) = 3
    /\ semaphore = 0
    /\ \E q \in DOMAIN tasks : tasks[q].status = "waiting"

\* C30: in one fan-out over questions, internal or external, a question
\* whose research fails contributes no result and the results of every other
\* question are all in the collected list.
C30_FailureKeepsSiblings ==
    result # <<>>
        => \A q \in DOMAIN tasks :
              LET mine == SelectSeq(result[1],
                                    LAMBDA s : s.question = args.questions[q])
              IN /\ tasks[q].outcome = "raises" => mine = <<>>
                 /\ tasks[q].outcome = "results"
                       => mine = <<Source(args.agent, args.questions[q])>>

\* the first question's research failed and the later questions' results
\* were collected
C30_Witness ==
    /\ result # <<>>
    /\ Len(args.questions) >= 3
    /\ tasks[1].outcome = "raises"
    /\ \A q \in 2..Len(args.questions) : tasks[q].outcome = "results"
    /\ Len(result[1]) = Len(args.questions) - 1

\* C24: any two requests one web-search service lets go through its shared
\* rate-limit timestamp are at least the rate-limit delay (1 second, 2
\* ticks) apart, also when several tasks are inside the rate limiter at once.
C24_RequestsOneDelayApart ==
    \A i \in 1..Len(requests), j \in 1..Len(requests) :
        i < j => requests[j] - requests[i] >= 2

\* C25: during the internal/external fan-out each branch writes only its own
\* source list: no branch writes the errors of the run record, which only
\* the merge step writes.
C25_BranchesWriteOwnListOnly ==
    pc = "quality_assessor" => research_pass.errors_written_by = {}

\* C26: after a research pass the run holds at most 20 internal and at most
\* 25 external sources, and the references section lists at most 15 internal
\* and at most 20 external sources, however many candidates the providers
\* returned.
C26_TruncationLimits ==
    result # <<>>
        => /\ Len(result[1].internal_sources) <= 20
           /\ Len(result[1].external_sources) <= 25
           /\ Len(result[1].references.internal) <= 15
           /\ Len(result[1].references.external) <= 20

\* more candidates than every limit, all of them usable: each list is cut
\* at its limit
C26_Witness ==
    /\ result # <<>>
    /\ Len(args.internal) > 25
    /\ Len(args.external) > 25
    /\ Len(result[1].internal_sources) = 20
    /\ Len(result[1].external_sources) = 25
    /\ Len(result[1].references.internal) = 15
    /\ Len(result[1].references.external) = 20

\* C27: in the internal source list of a pass no two sources have the same
\* first 200 characters of content: the candidates sharing a prefix have
\* collapsed to one entry.
C27_NoDuplicatePrefix ==
    result # <<>>
        => LET sources == result[1].internal_sources
               prefixes == {args.internal[i].prefix :
                               i \in 1..Len(args.internal)}
           IN /\ \A i \in 1..Len(sources), j \in 1..Len(sources) :
                    i # j => sources[i].prefix # sources[j].prefix
              /\ Len(sources) = Min(Cardinality(prefixes), 20)

\* candidates that alternate between two contents collapsed to two entries
C27_Witness ==
    /\ result # <<>>
    /\ Len(args.internal) >= 4
    /\ args.internal[1].prefix = args.internal[3].prefix
    /\ args.internal[2].prefix = args.internal[4].prefix
    /\ args.internal[1].prefix # args.internal[2].prefix
    /\ Len(result[1].internal_sources) = 2

\* C28: every successful Planner invocation yields between 4 and 6 research
\* questions, each ending in a question mark, whatever text the completion
\* provider returned.
C28_FourToSixQuestions ==
    result # <<>>
        => /\ Len(result[1]) >= 4
           /\ Len(result[1]) <= 6
           /\ \A i \in 1..Len(result[1]) : EndsWithQuestionMark(result[1][i])

\* C29: for a question with attributed sources the coverage score is the
\* mean relevance score of its sources in both failure cases: when the
\* completion call fails and when its answer cannot be parsed as a float.
C29_CoverageFallsBackToMean ==
    (/\ result # <<>>
     /\ args.relevance_scores # <<>>
     /\ args.response.kind \in {"raises", "unparseable"})
        => result[1].num * Len(args.relevance_scores)
              = Sum(args.relevance_scores) * result[1].den

\* C31: the credibility score computed for an external result lies in [0,1]
\* (0..100 hundredths) for every combination of its inputs: trusted,
\* medium-trust or other domain, HTTPS or not, long content or not, and the
\* empty record.
C31_CredibilityInUnitInterval ==
    result # <<>>
        => /\ result[1].external >= 0
           /\ result[1].external <= 100
           /\ result[1].utility >= 0
           /\ result[1].utility <= 100

\* every bonus applies and both sums end at the cap
C31_Witness ==
    /\ result # <<>>
    /\ args.domain = "trusted" /\ args.https /\ args.long_content
    /\ args.high /\ args.med /\ ~args.low /\ args.word_count > 500
    /\ args.dated
    /\ result[1].external = 100
    /\ result[1].utility = 100

\* C32: each research pass replaces internal_sources and external_sources
\* wholesale: after a pass, first or repeated, each list is exactly what
\* that pass produced for the current questions, and it is empty when the
\* path found nothing or failed, whatever the lists held before.
C32_PassReplacesSources ==
    (pc = "quality_assessor" /\ research_pass.internal # "none")
        => /\ state.internal_sources = research_pass.internal_produced
           /\ state.external_sources = research_pass.external_produced
           /\ research_pass.internal # "results"
                  => state.internal_sources = <<>>
           /\ research_pass.external # "results"
                  => state.external_sources = <<>>
           /\ \A i \in 1..Len(state.internal_sources) :
                 /\ state.internal_sources[i].source_type = "internal"
                 /\ \E q \in 1..Len(state.research_questions) :
                       state.internal_sources[i].question
                           = state.research_questions[q]
           /\ \A i \in 1..Len(state.external_sources) :
                 /\ state.external_sources[i].source_type = "external"
                 /\ \E q \in 1..Len(state.research_questions) :
                       state.external_sources[i].question
                           = state.research_questions[q]

\* a repeated pass found no internal passage where the pass before it had
\* found some: the internal list is empty again
C32_Witness ==
    /\ pc = "quality_assessor"
    /\ route \in {"retry_research", "replan"}
    /\ research_pass.internal = "empty"
    /\ research_pass.external = "results"
    /\ state.internal_sources = <<>>
    /\ \E i \in 1..Len(state.all_sources) :
          state.all_sources[i].source_type = "internal"

InUnitInterval(a) == FLeq(Fraction(0, 1), a) /\ FLeq(a, Fraction(100, 1))

\* C33: after a successful assessment over a non-empty question list with
\* source scores in [0,1], source diversity, content coverage and source
\* credibility each lie in [0,1], the information gaps are questions of the
\* list, and the overall score is diversity*0.2 + coverage*0.4 +
\* credibility*0.3 + (1 - gaps/questions)*0.1 and lies in [0,1].
C33_SubScoresAndWeightedSum ==
    result # <<>>
        => LET a == result[1]
               gap_share == Fraction(100 * Len(a.information_gaps),
                                     Len(args.questions))
           IN /\ InUnitInterval(a.source_diversity)
              /\ InUnitInterval(a.content_coverage)
              /\ InUnitInterval(a.source_credibility)
              /\ \A i \in 1..Len(a.information_gaps) :
                    \E q \in 1..Len(args.questions) :
                       a.information_gaps[i] = args.questions[q]
              /\ FEq(FScale(a.overall_score, 10, 1),
                     FAdd(FAdd(FScale(a.source_diversity, 2, 1),
                               FScale(a.content_coverage, 4, 1)),
                          FAdd(FScale(a.source_credibility, 3, 1),
                               FAdd(Fraction(100, 1),
                                    FScale(gap_share, -1, 1)))))
              /\ InUnitInterval(a.overall_score)

\* an assessment of internal sources only, whose balance term is negative
\* before the diversity score is clamped, with one question left a gap
C33_Witness ==
    /\ result # <<>>
    /\ Len(args.questions) = 2
    /\ args.internal_sources # <<>>
    /\ args.external_sources = <<>>
    /\ result[1].source_diversity = Fraction(0, 1)
    /\ Len(result[1].information_gaps) = 1
    /\ ~FEq(result[1].overall_score, Fraction(0, 1))

\* C34: in a run started from a record without errors no stage records an
\* error whose kind contains "critical", so the router never returns error
\* and the Error Recovery stage is never entered.
C34_FreshRunNeverCritical ==
    Fresh => /\ \A i \in 1..Len(state.errors) : ~IsCritical(state.errors[i])
             /\ route # "error"
             /\ pc # "error_recovery"

\* a fresh run in which the planner and a research path failed, the
\* assessment fell back, and the router sent the run on to the report
C34_Witness ==
    /\ Fresh
    /\ HasErrorOfType(state.errors, "planning_failed")
    /\ HasErrorOfType(state.errors, "quality_assessment_failed")
    /\ HasErrorOfType(state.errors, "internal_research_failed")
    /\ route = "generate_report"
    /\ pc = "report_generator"

\* the Planner is the entry point and the target of the replan route only:
\* it has been entered, or is about to be, once more than replan was taken
PlannerEntries == replans + 1

\* C35: in a run where every Planner invocation succeeds, the Planner is
\* entered at most 3 times and the replan route is taken at most twice.
C35_AtMostThreePlannerEntries ==
    NoPlanningFailure
        => /\ PlannerEntries <= MaxIterations
           /\ replans <= MaxIterations - 1
           /\ (pc # "planner" /\ ~Done)
                  => state.iteration_count = PlannerEntries

\* the third entry of the Planner, after two replan routes, has succeeded
C35_Witness ==
    /\ NoPlanningFailure
    /\ replans = 2
    /\ pc = "parallel_research"
    /\ route = "replan"
    /\ state.iteration_count = 3

\* C36: whenever quality_assessment is set, quality_score equals its
\* overall score, also after an assessment that fails in a later pass of a
\* run whose earlier assessment succeeded.
C36_ScoreEqualsAssessment ==
    state.quality_assessment # <<>>
        => state.quality_score = state.quality_assessment[1].overall_score

AssessedWithoutQuestions ==
    /\ pc = "quality_assessor"
    /\ pc' = "quality_router"
    /\ state.research_questions = <<>>

RoutedWithoutQuestions ==
    /\ pc = "quality_router"
    /\ state.research_questions = <<>>
    /\ state.iteration_count < MaxIterations

FallbackTaken ==
    /\ state'.errors = Append(state.errors,
                              Error("quality_assessment_failed",
                                    "quality_assessment"))
    /\ state'.quality_score = DefaultQuality

C38_BothFailuresRecorded ==
    (/\ pc = "quality_assessor"
     /\ research_pass.internal = "failed"
     /\ research_pass.external = "failed")
        => /\ Len(PassErrors) = 2
           /\ HasErrorOfType(PassErrors, "internal_research_failed")
           /\ HasErrorOfType(PassErrors, "external_research_failed")
           /\ Len(state.errors) = research_pass.errors_before + 2
           /\ IsPrefix(initial_state.errors, state.errors)

\* both paths failed in a pass of a run that had recorded errors before, and
\* the external handler ran first
C38_Witness ==
    /\ pc = "quality_assessor"
    /\ research_pass.internal = "failed"
    /\ research_pass.external = "failed"
    /\ research_pass.errors_before > 0
    /\ PassErrors = <<Error("external_research_failed", "external_research"),
                      Error("internal_research_failed", "internal_research")>>

PlannerFailed ==
    /\ pc = "planner"
    /\ pc' = "parallel_research"
    /\ Len(state'.errors) > Len(state.errors)

\* C39: a failed Planner invocation leaves the plan, the questions, the three
\* source lists, quality_score and quality_assessment as they were, and the
\* research pass that follows searches for those questions: the ones of the
\* last successful planning, or none on the first entry.
C39_PlannerFailureKeepsRecord ==
    [][/\ PlannerFailed
          => /\ state'.research_plan = state.research_plan
             /\ state'.research_questions = state.research_questions
             /\ state'.internal_sources = state.internal_sources
             /\ state'.external_sources = state.external_sources
             /\ state'.all_sources = state.all_sources
             /\ state'.quality_score = state.quality_score
             /\ state'.quality_assessment = state.quality_assessment
             /\ state.research_plan = <<>> => state.research_questions = <<>>
             /\ state.research_plan # <<>>
                   => state.research_questions = state.research_plan[1].questions
       /\ (pc = "parallel_research" /\ pc' = "quality_assessor")
          => /\ state'.research_questions = state.research_questions
             /\ \A i \in 1..Len(state'.internal_sources) :
                   \E q \in 1..Len(state.research_questions) :
                      state'.internal_sources[i].question
                          = state.research_questions[q]
             /\ research_pass'.internal = "results"
                   => Len(state'.internal_sources)
                         = Len(state.research_questions)]_vars

\* the second Planner invocation failed and the pass after it found a
\* passage for each question of the first planning
C39_Witness ==
    /\ pc = "quality_assessor"
    /\ route = "replan"
    /\ state.iteration_count = 1
    /\ HasErrorOfType(state.errors, "planning_failed")
    /\ state.research_questions # <<>>
    /\ research_pass.internal = "results"
    /\ Len(state.internal_sources) = Len(state.research_questions)

====
